---- MODULE Spec2Model ----
(***************************************************************************)
(* Model of the todo-list service (src/src/main.rs): five actix-web        *)
(* handlers sharing one Mutex<Vec<Todo>>.  Every worker thread runs one    *)
(* handler at a time; handlers of different workers run in parallel and    *)
(* meet only at the mutex.  A handler is modelled statement by statement.  *)
(***************************************************************************)
EXTENDS Integers, Sequences, FiniteSets, TLC

\* ------------------------------------------------------------------ bounds
\* Number of worker threads serving requests in parallel.
NumWorkers == 2
\* Number of distinct values Uuid::new_v4 can hand out before Create requests
\* are no longer accepted by the model.
MaxUuid == 3

Workers == 1..NumWorkers
Uuids == 1..MaxUuid
\* Request titles; "" is the empty title.
Titles == {"", "x"}

NoWorker == 0
None == 0

\* ------------------------------------------------------------------ data
\* Uuid's Display: a non-empty text that is different for different uuids.
to_string(u) == <<u>>

\* Every id a client may put in the path of /todos/{id}.
PathIds == {to_string(u) : u \in Uuids}

Todo(id, title, completed) == [id |-> id, title |-> title, completed |-> completed]

NoTodo == Todo(<<>>, "", FALSE)

CreateTodoRequest == [op : {"create_todo"}, todo_id : {<<>>}, title : Titles]

UpdateTodoRequest == [op : {"update_todo"}, todo_id : PathIds, title : Titles]

PathRequest == [op : {"get_todo", "delete_todo"}, todo_id : PathIds, title : {""}]

ListRequest == [op : {"get_todos"}, todo_id : {<<>>}, title : {""}]

Requests == ListRequest \cup PathRequest \cup CreateTodoRequest \cup UpdateTodoRequest

NoRequest == [op |-> "none", todo_id |-> <<>>, title |-> ""]

\* HttpResponse::<Status>().json(value): status, content type and the value
\* handed to the JSON serializer, tagged with its Rust type.
Json(status, kind, val) ==
    [status |-> status, content_type |-> "application/json", kind |-> kind, val |-> val]

NoResponse == [status |-> 0, content_type |-> "", kind |-> "none", val |-> <<>>]

\* format!("Todo with id {} not found", todo_id)
not_found_message(todo_id) == <<"Todo with id ", todo_id, " not found">>

\* Mutant of json_string: the text is written as it is (.body(text)).
json_string_bare(s) == s

\* serde_json's encoding of a Rust string: the text between two double quotes
\* (the texts of this program hold no character that needs an escape).
json_string(s) == <<"\"">> \o s \o <<"\"">>

\* HttpResponseBuilder::json(value): the body is serde_json::to_string(value),
\* the bytes of the HttpResponse the handler returns.
body(r) ==
    CASE r.kind = "string" -> json_string(r.val)
      [] r.kind = "todo" -> <<"{", r.val, "}">>
      [] r.kind = "array" -> <<"[", r.val, "]">>
      [] OTHER -> <<>>

\* Mutant of position: rposition, the last index that matches.
position_last(v, todo_id) ==
    IF \E i \in 1..Len(v) : v[i].id = todo_id
    THEN CHOOSE i \in 1..Len(v) :
            /\ v[i].id = todo_id
            /\ \A j \in (i + 1)..Len(v) : v[j].id # todo_id
    ELSE None

\* Mutant of position: a scan that falls back to the last index.
position_or_last(v, todo_id) ==
    IF \E i \in 1..Len(v) : v[i].id = todo_id
    THEN CHOOSE i \in 1..Len(v) :
            /\ v[i].id = todo_id
            /\ \A j \in 1..(i - 1) : v[j].id # todo_id
    ELSE Len(v)

\* todos.iter().position(|t| t.id == todo_id): the first index, or None.
position(v, todo_id) ==
    IF \E i \in 1..Len(v) : v[i].id = todo_id
    THEN CHOOSE i \in 1..Len(v) :
            /\ v[i].id = todo_id
            /\ \A j \in 1..(i - 1) : v[j].id # todo_id
    ELSE None

\* Mutant of find: a predicate that accepts every Todo.
find_first(v, todo_id) == IF Len(v) = 0 THEN NoTodo ELSE v[1]

\* todos.iter().find(|t| t.id == todo_id): the first match, or NoTodo for None.
find(v, todo_id) ==
    IF position(v, todo_id) = None THEN NoTodo ELSE v[position(v, todo_id)]

\* Mutant of remove: Vec::swap_remove(index), the last element fills the hole.
swap_remove(v, index) ==
    [i \in 1..(Len(v) - 1) |-> IF i = index THEN v[Len(v)] ELSE v[i]]

\* Vec::remove(index): the elements after index shift left by one.
remove(v, index) == [i \in 1..(Len(v) - 1) |-> IF i < index THEN v[i] ELSE v[i + 1]]

\* Mutant of push: Vec::insert(0, value).
insert_front(v, value) == <<value>> \o v

\* Vec::push(value)
push(v, value) == Append(v, value)

\* Mutant of set_title: the write also marks the Todo completed.
set_title_completed(v, index, title) ==
    [v EXCEPT ![index].title = title, ![index].completed = TRUE]

\* todos[todo_index].title = title
set_title(v, index, title) == [v EXCEPT ![index].title = title]

\* ------------------------------------------------------------------ state
VARIABLES
    todos,       \* AppState.todos: the Vec<Todo> inside the Mutex
    lock,        \* the worker holding the MutexGuard, or NoWorker
    poisoned,    \* the Mutex's poison flag
    issued,      \* the uuids Uuid::new_v4 has returned so far
    pc,          \* each worker's position in its handler
    req,         \* each worker's request (handler, path id, body title)
    new_todo,    \* create_todo's local new_todo
    todo_index,  \* update_todo's / delete_todo's local todo_index
    resp,        \* the HttpResponse the handler has built
    before,      \* history: todos as it was when the worker took the lock
    fate,        \* history: per id, never created / live / deleted, and its
                 \* title as last set by a create_todo or update_todo
    last_removed,\* history: the id removed by the handler that released the
                 \* lock last, <<>> when that handler removed nothing
    pushed       \* history: the ids of the Todos pushed so far, in the order
                 \* their create_todo handlers held the lock

vars == <<todos, lock, poisoned, issued, pc, req, new_todo, todo_index, resp,
          before, fate, last_removed, pushed>>

locals == <<new_todo, todo_index>>

Init ==
    /\ todos = <<>>
    /\ lock = NoWorker
    /\ poisoned = FALSE
    /\ issued = {}
    /\ pc = [w \in Workers |-> "idle"]
    /\ req = [w \in Workers |-> NoRequest]
    /\ new_todo = [w \in Workers |-> NoTodo]
    /\ todo_index = [w \in Workers |-> None]
    /\ resp = [w \in Workers |-> NoResponse]
    /\ before = [w \in Workers |-> <<>>]
    /\ fate = [id \in PathIds |-> [st |-> "never", title |-> ""]]
    /\ last_removed = <<>>
    /\ pushed = <<>>

\* ---------------------------------------------------------------- helpers
\* The handler of worker w is over: its locals are dropped and the worker is
\* free to take the next request.
Finish(w) ==
    /\ pc' = [pc EXCEPT ![w] = "idle"]
    /\ req' = [req EXCEPT ![w] = NoRequest]
    /\ new_todo' = [new_todo EXCEPT ![w] = NoTodo]
    /\ todo_index' = [todo_index EXCEPT ![w] = None]
    /\ resp' = [resp EXCEPT ![w] = NoResponse]
    /\ before' = [before EXCEPT ![w] = <<>>]

\* A panic unwinds the handler of worker w.  A MutexGuard dropped during a
\* panic poisons the mutex and unlocks it.
Panic(w) ==
    /\ Finish(w)
    /\ poisoned' = (poisoned \/ lock = w)
    /\ lock' = IF lock = w THEN NoWorker ELSE lock
    /\ UNCHANGED <<todos, issued, fate, last_removed, pushed>>

Goto(w, label) == pc' = [pc EXCEPT ![w] = label]

\* Mutant of new_v4: a generator that may repeat a value.
new_v4_repeating == Uuids

\* Uuid::new_v4(): a version-4 uuid, taken as never repeating.
new_v4 == Uuids \ issued

\* The model accepts a Create request only while new_v4 has a value left for it.
CanCreate == Cardinality(issued) + Cardinality({w \in Workers : pc[w] = "new"}) < MaxUuid

\* ---------------------------------------------------------------- routing
\* The HTTP layer hands a request to an idle worker, which enters the handler
\* the route names (path.into_inner() and the Json extractor included).
Dispatch(w) ==
    /\ pc[w] = "idle"
    /\ \E r \in Requests :
          /\ r.op = "create_todo" => CanCreate
          /\ req' = [req EXCEPT ![w] = r]
          /\ Goto(w, IF r.op = "create_todo" THEN "new" ELSE "lock")
    /\ UNCHANGED <<todos, lock, poisoned, issued, locals, resp, before, fate, last_removed, pushed>>

\* Mutant of mutex_lock: the handler goes on without waiting for the holder.
mutex_lock_no_wait(w) ==
    /\ pc[w] = "lock"
    /\ lock' = w
    /\ before' = [before EXCEPT ![w] = todos]
    /\ Goto(w, req[w].op)
    /\ UNCHANGED <<todos, poisoned, issued, req, locals, resp, fate, last_removed, pushed>>

\* app_state.todos.lock().unwrap(): blocks until the mutex is free; panics
\* when the mutex is poisoned.
mutex_lock(w) ==
    /\ pc[w] = "lock"
    /\ lock = NoWorker
    /\ IF poisoned
       THEN Panic(w)
       ELSE /\ lock' = w
            /\ before' = [before EXCEPT ![w] = todos]
            /\ Goto(w, req[w].op)
            /\ UNCHANGED <<todos, poisoned, issued, req, locals, resp, fate, last_removed, pushed>>

\* Mutant of drop_guard: the guard is leaked (mem::forget), the mutex stays
\* locked.
drop_guard_forget(w) ==
    /\ pc[w] = "return"
    /\ Finish(w)
    /\ UNCHANGED <<todos, lock, poisoned, issued, fate, last_removed, pushed>>

\* The handler returns: its response goes to the client and the MutexGuard,
\* a local of the handler, is dropped.
drop_guard(w) ==
    /\ pc[w] = "return"
    /\ lock' = IF lock = w THEN NoWorker ELSE lock
    /\ last_removed' = IF req[w].op = "delete_todo" /\ resp[w].status = 204
                       THEN req[w].todo_id
                       ELSE <<>>
    /\ Finish(w)
    /\ UNCHANGED <<todos, poisoned, issued, fate, pushed>>

\* Mutant of get_todos: the Vec is moved out (mem::take) instead of cloned.
get_todos_take(w) ==
    /\ pc[w] = "get_todos"
    /\ resp' = [resp EXCEPT ![w] = Json(200, "array", todos)]
    /\ todos' = <<>>
    /\ Goto(w, "return")
    /\ UNCHANGED <<lock, poisoned, issued, req, locals, before, fate, last_removed, pushed>>

\* ---------------------------------------------------------------- get_todos
get_todos(w) ==
    /\ pc[w] = "get_todos"
    /\ resp' = [resp EXCEPT ![w] = Json(200, "array", todos)]
    /\ Goto(w, "return")
    /\ UNCHANGED <<todos, lock, poisoned, issued, req, locals, before, fate, last_removed, pushed>>

\* ---------------------------------------------------------------- get_todo
get_todo(w) ==
    /\ pc[w] = "get_todo"
    /\ resp' = [resp EXCEPT ![w] =
                  IF find(todos, req[w].todo_id) # NoTodo
                  THEN Json(200, "todo", find(todos, req[w].todo_id))
                  ELSE Json(404, "string", not_found_message(req[w].todo_id))]
    /\ Goto(w, "return")
    /\ UNCHANGED <<todos, lock, poisoned, issued, req, locals, before, fate, last_removed, pushed>>

\* ---------------------------------------------------------------- create_todo
\* let new_todo = Todo { id: Uuid::new_v4().to_string(), title, completed: false }
create_todo_new(w) ==
    /\ pc[w] = "new"
    /\ \E u \in new_v4 :
          /\ issued' = issued \cup {u}
          /\ new_todo' = [new_todo EXCEPT ![w] = Todo(to_string(u), req[w].title, FALSE)]
    /\ Goto(w, "lock")
    /\ UNCHANGED <<todos, lock, poisoned, req, todo_index, resp, before, fate, last_removed, pushed>>

\* todos.push(new_todo.clone())
create_todo_push(w) ==
    /\ pc[w] = "create_todo"
    /\ todos' = push(todos, new_todo[w])
    /\ fate' = [fate EXCEPT ![new_todo[w].id] = [st |-> "live", title |-> new_todo[w].title]]
    /\ pushed' = Append(pushed, new_todo[w].id)
    /\ Goto(w, "created")
    /\ UNCHANGED <<lock, poisoned, issued, req, locals, resp, before, last_removed>>

\* HttpResponse::Created().json(new_todo)
create_todo_respond(w) ==
    /\ pc[w] = "created"
    /\ resp' = [resp EXCEPT ![w] = Json(201, "todo", new_todo[w])]
    /\ Goto(w, "return")
    /\ UNCHANGED <<todos, lock, poisoned, issued, req, locals, before, fate, last_removed, pushed>>

\* Mutant of update_todo_position: the guard is a temporary of the scan and
\* is dropped at the end of that statement.
update_todo_position_unlocks(w) ==
    /\ pc[w] = "update_todo"
    /\ lock' = NoWorker
    /\ LET i == position(todos, req[w].todo_id) IN
          IF i # None
          THEN /\ todo_index' = [todo_index EXCEPT ![w] = i]
               /\ Goto(w, "write")
               /\ UNCHANGED resp
          ELSE /\ resp' = [resp EXCEPT ![w] =
                             Json(404, "string", not_found_message(req[w].todo_id))]
               /\ Goto(w, "return")
               /\ UNCHANGED todo_index
    /\ UNCHANGED <<todos, poisoned, issued, req, new_todo, before, fate, last_removed, pushed>>

\* ---------------------------------------------------------------- update_todo
\* if let Some(todo_index) = todos.iter().position(..) { .. } else { 404 }
update_todo_position(w) ==
    /\ pc[w] = "update_todo"
    /\ LET i == position(todos, req[w].todo_id) IN
          IF i # None
          THEN /\ todo_index' = [todo_index EXCEPT ![w] = i]
               /\ Goto(w, "write")
               /\ UNCHANGED resp
          ELSE /\ resp' = [resp EXCEPT ![w] =
                             Json(404, "string", not_found_message(req[w].todo_id))]
               /\ Goto(w, "return")
               /\ UNCHANGED todo_index
    /\ UNCHANGED <<todos, lock, poisoned, issued, req, new_todo, before, fate, last_removed, pushed>>

\* todos[todo_index].title = todo_req.title.clone(): panics out of bounds.
update_todo_write(w) ==
    /\ pc[w] = "write"
    /\ IF todo_index[w] \in 1..Len(todos)
       THEN /\ todos' = set_title(todos, todo_index[w], req[w].title)
            /\ fate' = IF todos[todo_index[w]].id \in PathIds
                       THEN [fate EXCEPT ![todos[todo_index[w]].id].title = req[w].title]
                       ELSE fate
            /\ Goto(w, "updated")
            /\ UNCHANGED <<lock, poisoned, issued, req, locals, resp, before, last_removed, pushed>>
       ELSE Panic(w)

\* HttpResponse::Ok().json(todos[todo_index].clone()): panics out of bounds.
update_todo_respond(w) ==
    /\ pc[w] = "updated"
    /\ IF todo_index[w] \in 1..Len(todos)
       THEN /\ resp' = [resp EXCEPT ![w] = Json(200, "todo", todos[todo_index[w]])]
            /\ Goto(w, "return")
            /\ UNCHANGED <<todos, lock, poisoned, issued, req, locals, before, fate, last_removed, pushed>>
       ELSE Panic(w)

\* ---------------------------------------------------------------- delete_todo
\* if let Some(todo_index) = todos.iter().position(..) { .. } else { 404 }
delete_todo_position(w) ==
    /\ pc[w] = "delete_todo"
    /\ LET i == position(todos, req[w].todo_id) IN
          IF i # None
          THEN /\ todo_index' = [todo_index EXCEPT ![w] = i]
               /\ Goto(w, "remove")
               /\ UNCHANGED resp
          ELSE /\ resp' = [resp EXCEPT ![w] =
                             Json(404, "string", not_found_message(req[w].todo_id))]
               /\ Goto(w, "return")
               /\ UNCHANGED todo_index
    /\ UNCHANGED <<todos, lock, poisoned, issued, req, new_todo, before, fate, last_removed, pushed>>

\* todos.remove(todo_index): panics out of bounds.
delete_todo_remove(w) ==
    /\ pc[w] = "remove"
    /\ IF todo_index[w] \in 1..Len(todos)
       THEN /\ todos' = remove(todos, todo_index[w])
            /\ fate' = IF todos[todo_index[w]].id \in PathIds
                       THEN [fate EXCEPT ![todos[todo_index[w]].id] =
                                [st |-> "deleted", title |-> ""]]
                       ELSE fate
            /\ Goto(w, "removed")
            /\ UNCHANGED <<lock, poisoned, issued, req, locals, resp, before, last_removed, pushed>>
       ELSE Panic(w)

\* HttpResponse::NoContent().json("")
delete_todo_respond(w) ==
    /\ pc[w] = "removed"
    /\ resp' = [resp EXCEPT ![w] = Json(204, "string", <<>>)]
    /\ Goto(w, "return")
    /\ UNCHANGED <<todos, lock, poisoned, issued, req, locals, before, fate, last_removed, pushed>>

\* ---------------------------------------------------------------- system
Next ==
    \E w \in Workers :
        \/ Dispatch(w)
        \/ mutex_lock(w)
        \/ drop_guard(w)
        \/ get_todos(w)
        \/ get_todo(w)
        \/ create_todo_new(w)
        \/ create_todo_push(w)
        \/ create_todo_respond(w)
        \/ update_todo_position(w)
        \/ update_todo_write(w)
        \/ update_todo_respond(w)
        \/ delete_todo_position(w)
        \/ delete_todo_remove(w)
        \/ delete_todo_respond(w)

Spec == Init /\ [][Next]_vars

\* A Vec prepared by hand, as the tests build their AppState from a Vec of
\* their own making: up to MaxUuid Todos, of any ids, the same id more than
\* once included.
PreparedVecs ==
    UNION {[1..n -> [id : PathIds, title : Titles, completed : {FALSE}]] : n \in 0..MaxUuid}

\* The service started on a prepared Vec.
InitPrepared ==
    /\ todos \in PreparedVecs
    /\ lock = NoWorker
    /\ poisoned = FALSE
    /\ issued = {u \in Uuids : \E i \in 1..Len(todos) : todos[i].id = to_string(u)}
    /\ pc = [w \in Workers |-> "idle"]
    /\ req = [w \in Workers |-> NoRequest]
    /\ new_todo = [w \in Workers |-> NoTodo]
    /\ todo_index = [w \in Workers |-> None]
    /\ resp = [w \in Workers |-> NoResponse]
    /\ before = [w \in Workers |-> <<>>]
    /\ fate = [id \in PathIds |->
                 IF find(todos, id) # NoTodo
                 THEN [st |-> "live", title |-> find(todos, id).title]
                 ELSE [st |-> "never", title |-> ""]]
    /\ last_removed = <<>>
    /\ pushed = [i \in 1..Len(todos) |-> todos[i].id]

PreparedSpec == InitPrepared /\ [][Next]_vars

\* The steps of the handler worker w runs; the arrival of a request is not one.
Run(w) ==
    \/ mutex_lock(w)
    \/ drop_guard(w)
    \/ get_todos(w)
    \/ get_todo(w)
    \/ create_todo_new(w)
    \/ create_todo_push(w)
    \/ create_todo_respond(w)
    \/ update_todo_position(w)
    \/ update_todo_write(w)
    \/ update_todo_respond(w)
    \/ delete_todo_position(w)
    \/ delete_todo_remove(w)
    \/ delete_todo_respond(w)

\* Every worker is a thread the operating system keeps scheduling: a handler
\* that can take its next step without waiting takes it.  std::sync::Mutex
\* promises no order and no fairness among the threads blocked in lock(), so
\* the wait in lock() gets no more than this.
FairSpec == Spec /\ \A w \in Workers : WF_vars(Run(w))

\* ---------------------------------------------------------------- properties
\* A handler that has built its response and is about to return it; the guard
\* is still alive, so todos is the collection the handler leaves behind.
Returning(w, op) == pc[w] = "return" /\ req[w].op = op

Ids(v) == {v[i].id : i \in 1..Len(v)}

\* The operations of the Todo Store run one at a time on a collection v: the
\* store they leave behind and the response they give.
SerialStore(r, t, v) ==
    CASE r.op = "create_todo" -> Append(v, t)
      [] r.op = "update_todo" /\ position(v, r.todo_id) # None ->
            [v EXCEPT ![position(v, r.todo_id)].title = r.title]
      [] r.op = "delete_todo" /\ position(v, r.todo_id) # None ->
            SubSeq(v, 1, position(v, r.todo_id) - 1)
               \o SubSeq(v, position(v, r.todo_id) + 1, Len(v))
      [] OTHER -> v

SerialStatus(r, v) ==
    CASE r.op = "get_todos" -> 200
      [] r.op = "create_todo" -> 201
      [] position(v, r.todo_id) = None -> 404
      [] r.op = "delete_todo" -> 204
      [] OTHER -> 200

SerialValue(r, t, v) ==
    CASE r.op = "get_todos" -> v
      [] r.op = "create_todo" -> t
      [] position(v, r.todo_id) = None -> not_found_message(r.todo_id)
      [] r.op = "delete_todo" -> <<>>
      [] r.op = "update_todo" -> [v[position(v, r.todo_id)] EXCEPT !.title = r.title]
      [] OTHER -> v[position(v, r.todo_id)]

\* C1: no two stored Todos share an id, and the id a Create is about to return
\* is the id of no Todo created before and of no other Create in flight.
C1_UniqueIds ==
    /\ \A i, j \in 1..Len(todos) : i # j => todos[i].id # todos[j].id
    /\ \A w \in Workers :
          (req[w].op = "create_todo" /\ pc[w] \in {"lock", "create_todo"})
             => /\ new_todo[w].id \in PathIds
                /\ fate[new_todo[w].id].st = "never"
                /\ new_todo[w].id \notin Ids(todos)
    /\ \A w, x \in Workers :
          (w # x /\ new_todo[w] # NoTodo /\ new_todo[x] # NoTodo)
             => new_todo[w].id # new_todo[x].id

\* Two Creates have pushed their Todos, a third one is waiting with its own.
C1_Witness ==
    /\ Len(todos) >= 2
    /\ \E w \in Workers : req[w].op = "create_todo" /\ pc[w] = "lock"

\* C2: every handler returns the response and leaves the collection that the
\* same operation, run alone on the collection as it was when the handler took
\* the lock, gives; and a handler inside its critical section is the lock holder,
\* so the collection it met is the one the previous holder left.
C2_Linearizable ==
    /\ \A w \in Workers :
          pc[w] = "return"
             => /\ todos = SerialStore(req[w], new_todo[w], before[w])
                /\ resp[w].status = SerialStatus(req[w], before[w])
                /\ resp[w].val = SerialValue(req[w], new_todo[w], before[w])
    /\ \A w \in Workers :
          pc[w] \notin {"idle", "new", "lock"} => lock = w

\* A handler returns a mutation while another worker waits for the lock.
C2_Witness ==
    \E w, x \in Workers :
        /\ pc[w] = "return"
        /\ req[w].op = "delete_todo"
        /\ resp[w].status = 204
        /\ Len(before[w]) >= 2
        /\ pc[x] = "lock"
        /\ req[x].op = "update_todo"

\* C3: an Update of a present id returns 200 with the stored Todo, and differs
\* from the collection it met in the title of that one Todo only.
C3_UpdateFrame ==
    \A w \in Workers :
        (Returning(w, "update_todo") /\ req[w].todo_id \in Ids(before[w]))
           => LET i == position(before[w], req[w].todo_id) IN
                 /\ resp[w].status = 200
                 /\ Len(todos) = Len(before[w])
                 /\ \A j \in 1..Len(todos) : j # i => todos[j] = before[w][j]
                 /\ todos[i].id = before[w][i].id
                 /\ todos[i].completed = before[w][i].completed
                 /\ todos[i].title = req[w].title
                 /\ resp[w].val = todos[i]

\* An Update has changed the title of the second of three Todos.
C3_Witness ==
    \E w \in Workers :
        /\ Returning(w, "update_todo")
        /\ Len(before[w]) = 3
        /\ position(before[w], req[w].todo_id) = 2
        /\ before[w][2].title # req[w].title
        /\ resp[w].status = 200

\* C4: Get, Update and Delete of an id that is not in the collection answer 404
\* and leave the collection as it was; 404 is given in that case only, every
\* other response is a success and no handler panics.
C4_NotFound ==
    /\ ~poisoned
    /\ \A w \in Workers :
          pc[w] = "return"
             => /\ resp[w].status \in {200, 201, 204, 404}
                /\ resp[w].status = 404
                      <=> /\ req[w].op \in {"get_todo", "update_todo", "delete_todo"}
                          /\ req[w].todo_id \notin Ids(before[w])
                /\ resp[w].status = 404 => todos = before[w]

\* An Update of an id that is not among the two stored Todos answers 404.
C4_Witness ==
    \E w \in Workers :
        /\ Returning(w, "update_todo")
        /\ Len(before[w]) = 2
        /\ req[w].todo_id \notin Ids(before[w])
        /\ resp[w].status = 404

\* C5: a Delete of a present id answers 204 and leaves the collection it met
\* without that one Todo; a Delete of the id the previous lock holder removed
\* answers 404.
C5_Delete ==
    \A w \in Workers :
        /\ (Returning(w, "delete_todo") /\ req[w].todo_id \in Ids(before[w]))
              => LET i == position(before[w], req[w].todo_id) IN
                    /\ resp[w].status = 204
                    /\ Len(todos) = Len(before[w]) - 1
                    /\ \A j \in 1..Len(todos) :
                          todos[j] = IF j < i THEN before[w][j] ELSE before[w][j + 1]
                    /\ req[w].todo_id \notin Ids(todos)
        /\ (Returning(w, "delete_todo") /\ last_removed = req[w].todo_id)
              => resp[w].status = 404 /\ todos = before[w]

\* The second of two Deletes of one id, nothing between them, with Todos left.
C5_Witness ==
    \E w \in Workers :
        /\ Returning(w, "delete_todo")
        /\ last_removed = req[w].todo_id
        /\ resp[w].status = 404
        /\ Len(todos) = 2

\* C6: a Create answers 201 with a Todo of a non-empty id, the request's title
\* and completed = false, and leaves the collection it met with that Todo
\* appended.
C6_Create ==
    \A w \in Workers :
        Returning(w, "create_todo")
           => /\ resp[w].status = 201
              /\ resp[w].kind = "todo"
              /\ Len(resp[w].val.id) > 0
              /\ resp[w].val.title = req[w].title
              /\ resp[w].val.completed = FALSE
              /\ Len(todos) = Len(before[w]) + 1
              /\ todos[Len(todos)] = resp[w].val
              /\ \A j \in 1..Len(before[w]) : todos[j] = before[w][j]

\* A Create with the empty title has appended a third Todo.
C6_Witness ==
    \E w \in Workers :
        /\ Returning(w, "create_todo")
        /\ req[w].title = ""
        /\ Len(before[w]) = 2
        /\ resp[w].status = 201

\* C7: a List answers 200 with the collection in storage order and leaves it
\* as it was; while no Todo has been deleted it returns one Todo per Create that
\* has pushed, each under the title it was last given.
C7_List ==
    \A w \in Workers :
        Returning(w, "get_todos")
           => /\ resp[w].status = 200
              /\ resp[w].kind = "array"
              /\ resp[w].val = todos
              /\ todos = before[w]
              /\ (\A id \in PathIds : fate[id].st # "deleted")
                    => /\ Len(resp[w].val) =
                             Cardinality({id \in PathIds : fate[id].st = "live"})
                       /\ \A i \in 1..Len(resp[w].val) :
                             /\ resp[w].val[i].id \in PathIds
                             /\ fate[resp[w].val[i].id].st = "live"
                             /\ resp[w].val[i].title = fate[resp[w].val[i].id].title

\* A List after three Creates and no Delete.
C7_Witness ==
    \E w \in Workers :
        /\ Returning(w, "get_todos")
        /\ Len(resp[w].val) = 3
        /\ \A id \in PathIds : fate[id].st = "live"

\* The empty store lists as [].
C7_WitnessEmpty ==
    \E w \in Workers : Returning(w, "get_todos") /\ resp[w].val = <<>>

\* C8: a Get of an id no Create has pushed, or whose Todo was deleted, answers
\* 404; a Get of an id created and not deleted answers 200 with that Todo under
\* the title it was last given.
C8_Get ==
    \A w \in Workers :
        Returning(w, "get_todo")
           => LET id == req[w].todo_id IN
                 /\ fate[id].st \in {"never", "deleted"} => resp[w].status = 404
                 /\ fate[id].st = "live"
                       => /\ resp[w].status = 200
                          /\ resp[w].val = Todo(id, fate[id].title, FALSE)

\* A Get of a deleted id, with other Todos created since, answers 404.
C8_Witness ==
    \E w \in Workers :
        /\ Returning(w, "get_todo")
        /\ fate[req[w].todo_id].st = "deleted"
        /\ Len(todos) = 2
        /\ resp[w].status = 404

\* A Get of a live id returns the title an Update gave it.
C8_WitnessLive ==
    \E w \in Workers :
        /\ Returning(w, "get_todo")
        /\ resp[w].status = 200
        /\ resp[w].val.title = "x"
        /\ Len(todos) = 3
        /\ position(todos, req[w].todo_id) = 2

\* C9 as stated: every request that starts a handler gets the lock, runs to
\* completion and returns.
C9_EveryRequestReturns ==
    \A w \in Workers : (pc[w] # "idle") ~> (pc[w] = "idle")

\* C9 amended: a handler that holds the lock returns and releases it, and
\* create_todo reaches lock(); a handler stays blocked in lock() only while
\* other handlers take the lock again and again.
C9_HolderReturns ==
    \A w \in Workers :
        /\ (lock = w) ~> (lock = NoWorker /\ pc[w] = "idle")
        /\ (pc[w] = "new") ~> (pc[w] = "lock")
        /\ []<>(pc[w] # "lock") \/ []<>(lock \notin {NoWorker, w})

\* A handler is blocked in lock() while another handler holds the lock.
C9_Witness ==
    \E w, x \in Workers :
        /\ pc[w] = "lock"
        /\ lock = x
        /\ pc[x] = "return"

\* C10 as stated: every step of a handler, create_todo's construction of
\* new_todo included, runs while the handler holds the lock.
C10_WholeBodyLocked ==
    \A w \in Workers : pc[w] \notin {"idle", "lock"} => lock = w

\* C10 amended: every step of a handler after lock() holds the lock until the
\* handler returns; create_todo builds new_todo (id included) before lock().
C10_LockedAfterLock ==
    \A w \in Workers :
        /\ pc[w] \notin {"idle", "new", "lock"} => lock = w
        /\ pc[w] = "new" => lock # w /\ new_todo[w] = NoTodo
        /\ (req[w].op = "create_todo" /\ pc[w] = "lock")
              => lock # w /\ new_todo[w].id \in PathIds

\* A create_todo builds its Todo while another handler holds the lock.
C10_Witness ==
    \E w, x \in Workers :
        /\ req[w].op = "create_todo"
        /\ pc[w] = "lock"
        /\ new_todo[w] # NoTodo
        /\ lock = x
        /\ pc[x] = "write"

\* C11: every stored Todo has completed = false, and every step leaves the
\* collection alone, appends one Todo with completed = false, takes one Todo
\* out, or keeps the id and completed of the Todo at every position (only a
\* title may differ).
C11_CompletedFalseIdFixed ==
    /\ [](\A i \in 1..Len(todos) : todos[i].completed = FALSE)
    /\ [][\/ todos' = todos
          \/ /\ Len(todos') = Len(todos) + 1
             /\ SubSeq(todos', 1, Len(todos)) = todos
             /\ todos'[Len(todos')].completed = FALSE
          \/ /\ Len(todos') = Len(todos) - 1
             /\ \E i \in 1..Len(todos) : todos' = remove(todos, i)
          \/ /\ Len(todos') = Len(todos)
             /\ \A i \in 1..Len(todos) :
                   /\ todos'[i].id = todos[i].id
                   /\ todos'[i].completed = todos[i].completed]_vars

\* An Update has given the last of three Todos another title.
C11_Witness ==
    \E w \in Workers :
        /\ pc[w] = "updated"
        /\ Len(todos) = 3
        /\ todo_index[w] = 3
        /\ todos[3].title # before[w][3].title
        /\ todos[3].id = before[w][3].id

\* C12 as stated: a 404 has a plain-text body that is the bare message
\* "Todo with id {id} not found" for the requested id.
C12_PlainTextMessage ==
    \A w \in Workers :
        (pc[w] = "return" /\ resp[w].status = 404)
           => /\ resp[w].content_type = "text/plain"
              /\ Len(body(resp[w])) = Len(not_found_message(req[w].todo_id))
              /\ body(resp[w]) = not_found_message(req[w].todo_id)

\* C12 amended: a 404 has content type application/json and its body is the
\* JSON string of the message "Todo with id {id} not found" for the requested
\* id: the message between two double quotes.
C12_JsonStringMessage ==
    \A w \in Workers :
        (pc[w] = "return" /\ req[w].todo_id \notin Ids(before[w])
            /\ req[w].op \in {"get_todo", "update_todo", "delete_todo"})
           => /\ resp[w].status = 404
              /\ resp[w].content_type = "application/json"
              /\ Len(body(resp[w])) = 5
              /\ body(resp[w]) =
                    <<"\"", "Todo with id ", req[w].todo_id, " not found", "\"">>

\* A Delete of an id that is not among the two stored Todos has answered.
C12_Witness ==
    \E w \in Workers :
        /\ Returning(w, "delete_todo")
        /\ Len(before[w]) = 2
        /\ req[w].todo_id \notin Ids(before[w])
        /\ resp[w].status = 404

\* C13: a successful Delete answers 204 with an empty body, zero bytes.
C13_DeleteEmptyBody ==
    \A w \in Workers :
        (Returning(w, "delete_todo") /\ req[w].todo_id \in Ids(before[w]))
           => /\ resp[w].status = 204
              /\ Len(body(resp[w])) = 0

\* What the handler returns instead: 204 with the JSON string of "", two
\* double quotes.
C13_DeleteBodyIsQuotes ==
    \A w \in Workers :
        (Returning(w, "delete_todo") /\ req[w].todo_id \in Ids(before[w]))
           => /\ resp[w].status = 204
              /\ resp[w].content_type = "application/json"
              /\ Len(body(resp[w])) = 2
              /\ body(resp[w]) = <<"\"", "\"">>

\* The place of id in the order of the pushes.
PushRank(id) == CHOOSE k \in 1..Len(pushed) : pushed[k] = id

InPushOrder(v) ==
    /\ \A i \in 1..Len(v) : \E k \in 1..Len(pushed) : pushed[k] = v[i].id
    /\ \A i, j \in 1..Len(v) : i < j => PushRank(v[i].id) < PushRank(v[j].id)

\* C14: the stored Todos are in the order in which their Creates pushed them
\* (the order in which those handlers held the lock), whatever Updates and
\* Deletes came since, and a List returns them in that order.
C14_InsertionOrder ==
    /\ InPushOrder(todos)
    /\ \A w \in Workers :
          Returning(w, "get_todos")
             => /\ InPushOrder(resp[w].val)
                /\ Len(resp[w].val) = Len(todos)

\* A List of the first and the third of three pushed Todos, the second deleted
\* and the third updated.
C14_Witness ==
    \E w \in Workers :
        /\ Returning(w, "get_todos")
        /\ Len(pushed) = 3
        /\ Len(resp[w].val) = 2
        /\ resp[w].val[1].id = pushed[1]
        /\ resp[w].val[2].id = pushed[3]
        /\ resp[w].val[2].title # resp[w].val[1].title

\* C15: while update_todo or delete_todo is between its scan and the last use
\* of todo_index, todo_index is an index of the collection and the Todo there
\* has the requested id; the mutex is never poisoned, so no lock().unwrap()
\* fails.
C15_IndexValidNoPoison ==
    /\ ~poisoned
    /\ \A w \in Workers :
          pc[w] \in {"write", "updated", "remove"}
             => /\ todo_index[w] \in 1..Len(todos)
                /\ todos[todo_index[w]].id = req[w].todo_id
                /\ lock = w

\* delete_todo is about to remove the last of three Todos while another
\* handler, a Delete of the first one, waits for the lock.
C15_Witness ==
    \E w, x \in Workers :
        /\ pc[w] = "remove"
        /\ Len(todos) = 3
        /\ todo_index[w] = 3
        /\ pc[x] = "lock"
        /\ req[x].op = "delete_todo"
        /\ req[x].todo_id = todos[1].id

\* The indices of v whose Todo has the id.
Matches(v, id) == {i \in 1..Len(v) : v[i].id = id}

\* The least of a non-empty set of indices.
Least(S) == CHOOSE i \in S : \A j \in S : i <= j

\* C16: started on any Vec, one with the same id several times included, Get
\* returns the first Todo in storage order with the requested id, Update gives
\* that Todo the new title and changes no other, and Delete takes that Todo out
\* and no other, so the other Todos of the same id stay.
C16_FirstMatchOnly ==
    \A w \in Workers :
        (pc[w] = "return" /\ Matches(before[w], req[w].todo_id) # {})
           => LET i == Least(Matches(before[w], req[w].todo_id)) IN
                 /\ req[w].op = "get_todo"
                       => /\ resp[w].status = 200
                          /\ resp[w].val = before[w][i]
                          /\ todos = before[w]
                 /\ req[w].op = "update_todo"
                       => /\ resp[w].status = 200
                          /\ Len(todos) = Len(before[w])
                          /\ todos[i].title = req[w].title
                          /\ resp[w].val = todos[i]
                          /\ \A j \in 1..Len(todos) : j # i => todos[j] = before[w][j]
                 /\ req[w].op = "delete_todo"
                       => /\ resp[w].status = 204
                          /\ Len(todos) = Len(before[w]) - 1
                          /\ \A j \in 1..Len(todos) :
                                todos[j] = IF j < i THEN before[w][j] ELSE before[w][j + 1]
                          /\ Cardinality(Matches(todos, req[w].todo_id)) =
                                Cardinality(Matches(before[w], req[w].todo_id)) - 1

\* An Update of an id that three stored Todos share has answered: the first
\* has the new title, the two others keep another one.
C16_Witness ==
    \E w \in Workers :
        /\ Returning(w, "update_todo")
        /\ Matches(before[w], req[w].todo_id) = {1, 2, 3}
        /\ \A j \in 1..3 : before[w][j].title # req[w].title
        /\ resp[w].status = 200
        /\ todos[1].title = req[w].title
        /\ todos[3].title # req[w].title

\* A Delete of an id that two stored Todos share has answered; one is left.
C16_WitnessDelete ==
    \E w \in Workers :
        /\ Returning(w, "delete_todo")
        /\ Matches(before[w], req[w].todo_id) = {2, 3}
        /\ before[w][2].title # before[w][3].title
        /\ resp[w].status = 204
        /\ Matches(todos, req[w].todo_id) = {2}

====
